---- MODULE Spec2Model ----
(***************************************************************************)
(* NasVolumeWatcher: the catalog (tables files and dirs of                 *)
(* DatabasePostgreSQL), the batch driver (FileFinder.find and              *)
(* FileFinder.calc_hash) and the filesystem they read.                     *)
(*                                                                         *)
(* A nullable SQL column / a Python attribute that may be None holds       *)
(* Null (= <<>>) or Some(v) (= <<v>>).  Paths are sequences of path        *)
(* components; timestamps on disk are ticks (TicksPerSecond per second),   *)
(* timestamps in entities and rows are whole seconds.                      *)
(***************************************************************************)
EXTENDS Integers, Sequences, FiniteSets, TLC

VARIABLES
    files,      \* table "files": a set of rows, primary key (volume, path)
    dirs,       \* table "dirs":  a set of rows, primary key (volume, path)
    disk,       \* the filesystem: key -> [exists, data, st_mtime]
    pc,         \* position of the batch driver
    scanned,    \* find(): the listing [files, dirs] it hands to the setters
    modified,   \* calc_hash(): the rows of the current selection not yet visited
    batch,      \* calc_hash(): the local list "files" (pending writes)
    hashed,     \* calc_hash(): counter
    saved,      \* calc_hash(): counter
    skip,       \* calc_hash(): counter
    vanished,   \* history: keys whose rows this calc_hash() deleted as vanished
    deletedInBatch, \* history: keys a Delete event removed while their digest
                \* waited in the batch of this calc_hash(), the file gone from disk
    last,       \* history: the last catalog operation, its outcome, the catalog before it
    faults,     \* number of failures injected so far
    calls       \* number of driver calls made so far

vars == <<files, dirs, disk, pc, scanned, modified, batch, hashed, saved, skip,
          vanished, deletedInBatch, last, faults, calls>>

(***************************************************************************)
(* Bounds of the model.                                                    *)
(***************************************************************************)
MaxTick == 2        \* disk timestamps are 0..MaxTick ticks
MaxFaults == 1      \* failures (store, digest) injected per behaviour
MaxCalls == 2       \* driver calls (setter / calc_hash invocations) per behaviour
MaxLimit == 2       \* limits tried on select_files in SpecSelect

\* resolution of the disk clock: replace(microsecond=0) drops the sub-second part
TicksPerSecond == 2

Null == <<>>
Some(v) == <<v>>

(***************************************************************************)
(* The universe: volumes, paths, file contents.                            *)
(***************************************************************************)
Volumes == {"v1", "v2"}
Key(v, p) == [volume |-> v, path |-> p]
KeyA == Key("v1", <<"t", "a">>)
KeyB == Key("v1", <<"t", "b">>)
KeyC == Key("v2", <<"t", "a">>)
KeyE == Key("v1", <<"t", "@eaDir">>)
TopV1 == Key("v1", <<"t">>)
TopV2 == Key("v2", <<"t">>)
FileKeys == {KeyA, KeyB, KeyC, KeyE}
DirKeys == {TopV1, TopV2}
Keys == FileKeys \cup DirKeys
Contents == {<<>>, <<"x">>, <<"y">>, <<"x", "y">>}
Ticks == 0..MaxTick

KeyOf(r) == Key(r.volume, r.path)

(***************************************************************************)
(* The filesystem as the program reads it.                                 *)
(***************************************************************************)
NoEntry == [exists |-> FALSE, data |-> <<>>, st_mtime |-> 0]
Entry(d, t) == [exists |-> TRUE, data |-> d, st_mtime |-> t]

\* a path the disk has no entry for does not exist
os_path_exists(k) == k \in DOMAIN disk /\ disk[k].exists

is_file(k) == k \in FileKeys /\ disk[k].exists

is_dir(k) == k \in DirKeys /\ disk[k].exists

\* os.stat: the size is the length of the content; the three times of an
\* entry are those of its last write
StatOf(entry) ==
    [st_size |-> Len(entry.data), st_ctime |-> entry.st_mtime,
     st_mtime |-> entry.st_mtime, st_atime |-> entry.st_mtime]

os_stat(k) == StatOf(disk[k])

\* datetime.fromtimestamp(t).replace(microsecond=0)
fromtimestamp(t) == t \div TicksPerSecond

\* os.path.dirname / pathlib's parent: the path without its last component
dirname(path) == SubSeq(path, 1, Len(path) - 1)

\* sha256.hexdigest(): one digest per content
hexdigest(data) == <<"sha256">> \o data

\* re.search('@eaDir', str(path))
re_search_eaDir(path) == \E i \in 1..Len(path) : path[i] = "@eaDir"

(***************************************************************************)
(* Entities: File and Dir objects (class FileBase and its subclasses).     *)
(***************************************************************************)
FileBase(kind, volume, path, parent, st) ==
    [kind |-> kind, volume |-> volume, path |-> path, parent |-> parent,
     size |-> st.st_size,
     ctime |-> fromtimestamp(st.st_ctime),
     mtime |-> fromtimestamp(st.st_mtime),
     atime |-> fromtimestamp(st.st_atime),
     sha256 |-> Null, rehash |-> Null]

\* File(volume=..., path=...[, parent=...]) / Dir(...): an object built with no
\* stat, of which the statements read the key and the parent only
FileBaseNoStat(kind, volume, path, parent) ==
    [kind |-> kind, volume |-> volume, path |-> path, parent |-> parent]

\* DatabasePostgreSQL._table
_table(file) == IF file.kind = "File" THEN "files" ELSE "dirs"

(***************************************************************************)
(* SQL of DatabasePostgreSQL.upsert_files_replace.                         *)
(***************************************************************************)
SameKey(r, e) == r.volume = e.volume /\ r.path = e.path

\* "copy files_exist from stdin": the seven columns written per entity
files_exist(entities) ==
    {[volume |-> e.volume, path |-> e.path, parent |-> e.parent, size |-> e.size,
      ctime |-> e.ctime, mtime |-> e.mtime, atime |-> e.atime] : e \in entities}

\* a row inserted with the seven columns; the others take their default NULL
NewRow(table, e) ==
    IF table = "files"
    THEN [volume |-> e.volume, path |-> e.path, parent |-> e.parent, size |-> e.size,
          ctime |-> e.ctime, mtime |-> e.mtime, atime |-> e.atime,
          sha256 |-> Null, rehash |-> Null]
    ELSE [volume |-> e.volume, path |-> e.path, parent |-> e.parent, size |-> e.size,
          ctime |-> e.ctime, mtime |-> e.mtime, atime |-> e.atime,
          count |-> Null]

\* files:  on conflict (volume,path) do update set rehash=TRUE
\*         where files.size!=excluded.size or files.mtime!=excluded.mtime
\* dirs:   on conflict (volume,path) do nothing
\* (variants: the flag never set; the row refreshed and the flag recomputed)
OnConflictNeverFlags(table, r, e) == r

OnConflictRecomputesFlag(table, r, e) ==
    IF table = "files"
    THEN [r EXCEPT !.size = e.size, !.mtime = e.mtime,
                   !.rehash = IF r.size # e.size \/ r.mtime # e.mtime
                              THEN Some(TRUE) ELSE Null]
    ELSE r

OnConflict(table, r, e) ==
    IF table = "files" /\ (r.size # e.size \/ r.mtime # e.mtime)
    THEN [r EXCEPT !.rehash = Some(TRUE)]
    ELSE r

\* insert into <table> (...) select ... from files_exist on conflict ...
InsertFromStaged(table, rows, staged) ==
    {IF \E e \in staged : SameKey(r, e)
       THEN OnConflict(table, r, CHOOSE e \in staged : SameKey(r, e))
       ELSE r : r \in rows}
    \cup {NewRow(table, e) : e \in {x \in staged : ~ \E r \in rows : SameKey(r, x)}}

\* delete from <table> as t using <table> as f
\*   left join files_exist as e on f.volume=e.volume and f.path=e.path
\*   where t.volume=f.volume and t.path=f.path and e.path is null
\* (variant: "e.path is not null")
DeleteStaged(rows, staged) ==
    {r \in rows : ~ \E e \in staged : SameKey(r, e)}

DeleteNotStaged(rows, staged) ==
    {r \in rows : \E e \in staged : SameKey(r, e)}

\* connection.rollback(): the uncommitted work is dropped
\* (variant: every statement committed on its own)
RollbackKeepsWork(before, work) == work

rollback(before, work) == before

FailPoints == {"copy", "upsert", "delete"}

\* (variant: no early return on an empty tuple)
upsert_files_replace_unguarded(table, rows, entities, failAt) ==
    LET staged == files_exist(entities)
        upserted == InsertFromStaged(table, rows, staged)
        pruned == DeleteNotStaged(upserted, staged)
    IN  IF failAt = "none" THEN pruned ELSE rollback(rows, upserted)

\* the table after upsert_files_replace(files); failAt names the statement
\* that raises, "none" when the transaction commits
upsert_files_replace(table, rows, entities, failAt) ==
    IF entities = {}
    THEN rows
    ELSE LET staged == files_exist(entities)
             upserted == InsertFromStaged(table, rows, staged)
             pruned == DeleteNotStaged(upserted, staged)
         IN  CASE failAt = "none" -> pruned
               [] failAt = "copy" -> rollback(rows, rows)
               [] failAt = "upsert" -> rollback(rows, rows)
               [] failAt = "delete" -> rollback(rows, upserted)

(***************************************************************************)
(* The other statements of DatabasePostgreSQL.  A catalog is the record    *)
(* [files, dirs] of the two tables.                                        *)
(***************************************************************************)
\* insert into <table> (volume, path, parent, size, ctime, mtime, atime)
\*   values (...) on conflict(volume, path) do update set parent=..., size=...,
\*   ctime=..., mtime=..., atime=... [, sha256=%s, rehash=%s]
\* (variant: the conflict branch without its sha256 and rehash parameters)
UpsertRowNoParams(table, rows, e) ==
    IF \E r \in rows : SameKey(r, e)
    THEN {IF SameKey(r, e)
            THEN [r EXCEPT !.parent = e.parent, !.size = e.size, !.ctime = e.ctime,
                           !.mtime = e.mtime, !.atime = e.atime]
            ELSE r : r \in rows}
    ELSE rows \cup {NewRow(table, e)}

\* (variant: on conflict do nothing)
UpsertRowInsertOnly(table, rows, e) ==
    IF \E r \in rows : SameKey(r, e) THEN rows ELSE rows \cup {NewRow(table, e)}

\* (variant: the conflict branch writes rehash but not sha256)
UpsertRowKeepsDigest(table, rows, e) ==
    IF \E r \in rows : SameKey(r, e)
    THEN {IF SameKey(r, e)
            THEN IF table = "files"
                 THEN [r EXCEPT !.parent = e.parent, !.size = e.size,
                                !.ctime = e.ctime, !.mtime = e.mtime,
                                !.atime = e.atime, !.rehash = e.rehash]
                 ELSE [r EXCEPT !.parent = e.parent, !.size = e.size,
                                !.ctime = e.ctime, !.mtime = e.mtime,
                                !.atime = e.atime]
            ELSE r : r \in rows}
    ELSE rows \cup {NewRow(table, e)}

\* (variant: the conflict branch writes sha256 and rehash but no metadata)
UpsertRowKeepsStat(table, rows, e) ==
    IF \E r \in rows : SameKey(r, e)
    THEN {IF SameKey(r, e)
            THEN IF table = "files"
                 THEN [r EXCEPT !.sha256 = e.sha256, !.rehash = e.rehash]
                 ELSE r
            ELSE r : r \in rows}
    ELSE rows \cup {NewRow(table, e)}

\* (variant: the insert carries the object's sha256)
UpsertRowInsertsDigest(table, rows, e) ==
    IF \E r \in rows : SameKey(r, e)
    THEN {IF SameKey(r, e)
            THEN IF table = "files"
                 THEN [r EXCEPT !.parent = e.parent, !.size = e.size,
                                !.ctime = e.ctime, !.mtime = e.mtime,
                                !.atime = e.atime,
                                !.sha256 = e.sha256, !.rehash = e.rehash]
                 ELSE [r EXCEPT !.parent = e.parent, !.size = e.size,
                                !.ctime = e.ctime, !.mtime = e.mtime,
                                !.atime = e.atime]
            ELSE r : r \in rows}
    ELSE rows \cup {IF table = "files"
                    THEN [NewRow(table, e) EXCEPT !.sha256 = e.sha256]
                    ELSE NewRow(table, e)}

UpsertRow(table, rows, e) ==
    IF \E r \in rows : SameKey(r, e)
    THEN {IF SameKey(r, e)
            THEN IF table = "files"
                 THEN [r EXCEPT !.parent = e.parent, !.size = e.size,
                                !.ctime = e.ctime, !.mtime = e.mtime,
                                !.atime = e.atime,
                                !.sha256 = e.sha256, !.rehash = e.rehash]
                 ELSE [r EXCEPT !.parent = e.parent, !.size = e.size,
                                !.ctime = e.ctime, !.mtime = e.mtime,
                                !.atime = e.atime]
            ELSE r : r \in rows}
    ELSE rows \cup {NewRow(table, e)}

\* the statements of one cursor loop, applied in order to the catalog
RECURSIVE UpsertAll(_, _)
UpsertAll(cat, entities) ==
    IF entities = <<>>
    THEN cat
    ELSE LET e == Head(entities)
         IN  UpsertAll(IF _table(e) = "files"
                       THEN [cat EXCEPT !.files = UpsertRow("files", cat.files, e)]
                       ELSE [cat EXCEPT !.dirs = UpsertRow("dirs", cat.dirs, e)],
                       Tail(entities))

\* the catalog after upsert_files(files)
upsert_files(cat, entities, outcome) ==
    IF outcome = "none"
    THEN UpsertAll(cat, entities)
    ELSE rollback(cat, UpsertAll(cat, entities))

\* delete from <table> where volume=%s and path=%s
\* (variant: where volume=%s only)
DeleteRowByVolume(rows, e) == {r \in rows : r.volume # e.volume}

\* (variant: the statement deletes nothing)
DeleteRowNever(rows, e) == rows

DeleteRow(rows, e) == {r \in rows : ~ SameKey(r, e)}

RECURSIVE DeleteAll(_, _)
DeleteAll(cat, entities) ==
    IF entities = <<>>
    THEN cat
    ELSE LET e == Head(entities)
         IN  DeleteAll(IF _table(e) = "files"
                       THEN [cat EXCEPT !.files = DeleteRow(cat.files, e)]
                       ELSE [cat EXCEPT !.dirs = DeleteRow(cat.dirs, e)],
                       Tail(entities))

\* the catalog after delete_files(files)
delete_files(cat, entities, outcome) ==
    IF outcome = "none"
    THEN DeleteAll(cat, entities)
    ELSE rollback(cat, DeleteAll(cat, entities))

\* hashlist: select sha256 from files group by sha256 having count(sha256)>1
hashlist(rows) ==
    {h \in {r.sha256 : r \in rows} :
        h # Null /\ Cardinality({r \in rows : r.sha256 = h}) > 1}

\* counts: per directory, the files joined on volume, parent and size>0 whose
\* sha256 is in hashlist
\* (variant: the join without its size condition)
countsAnySize(cat, d) ==
    Cardinality({f \in cat.files : /\ f.volume = d.volume
                                   /\ f.parent = Some(d.path)
                                   /\ f.sha256 \in hashlist(cat.files)})

counts(cat, d) ==
    Cardinality({f \in cat.files : /\ f.volume = d.volume
                                   /\ f.parent = Some(d.path)
                                   /\ f.size > 0
                                   /\ f.sha256 \in hashlist(cat.files)})

\* the catalog after update_counter()
update_counter(cat, outcome) ==
    IF outcome = "none"
    THEN [cat EXCEPT !.dirs =
            {IF d.count = Null \/ d.count # Some(counts(cat, d))
               THEN [d EXCEPT !.count = Some(counts(cat, d))]
               ELSE d : d \in cat.dirs}]
    ELSE rollback(cat, cat)

\* the setter database.updated
updated(cat, entities, outcome) ==
    IF Len(entities) > 0
    THEN upsert_files(cat, entities, outcome)
    ELSE update_counter(cat, outcome)

\* update files set rehash=TRUE where volume=%s and path=%s, for File objects
\* only
\* (variant: the statement also clears the stored digest)
SetRehashRowDropsDigest(rows, e) ==
    {IF SameKey(r, e) THEN [r EXCEPT !.rehash = Some(TRUE), !.sha256 = Null] ELSE r :
        r \in rows}

SetRehashRow(rows, e) ==
    {IF SameKey(r, e) THEN [r EXCEPT !.rehash = Some(TRUE)] ELSE r : r \in rows}

RECURSIVE SetRehashAll(_, _)
SetRehashAll(cat, entities) ==
    IF entities = <<>>
    THEN cat
    ELSE LET e == Head(entities)
         IN  SetRehashAll(IF e.kind = "File"
                          THEN [cat EXCEPT !.files = SetRehashRow(cat.files, e)]
                          ELSE cat,
                          Tail(entities))

\* the catalog after set_rehash_files(files)
set_rehash_files(cat, entities, outcome) ==
    IF outcome = "none"
    THEN SetRehashAll(cat, entities)
    ELSE rollback(cat, SetRehashAll(cat, entities))

\* update <table> set volume=%s, path=%s, parent=%s where volume=%s and path=%s
\* (variant: parent is left as it was)
RenameRowKeepsParent(rows, src, dst) ==
    {IF SameKey(r, src)
       THEN [r EXCEPT !.volume = dst.volume, !.path = dst.path]
       ELSE r : r \in rows}

RenameRow(rows, src, dst) ==
    {IF SameKey(r, src)
       THEN [r EXCEPT !.volume = dst.volume, !.path = dst.path, !.parent = dst.parent]
       ELSE r : r \in rows}

\* CONSTRAINT <table>_pkey PRIMARY KEY (volume, path): the update raises when
\* another row already has the new key
\* (variant: no constraint)
UniqueViolationNever(rows, src, dst) == FALSE

UniqueViolation(rows, src, dst) ==
    \E r \in rows : SameKey(r, src) /\ \E q \in rows : q # r /\ SameKey(q, dst)

\* the catalog after rename_files({src: dst})
rename_files(cat, src, dst, outcome) ==
    LET table == _table(src)
        rows == IF table = "files" THEN cat.files ELSE cat.dirs
        work == IF table = "files"
                THEN [cat EXCEPT !.files = RenameRow(rows, src, dst)]
                ELSE [cat EXCEPT !.dirs = RenameRow(rows, src, dst)]
    IN  IF outcome = "none" /\ ~ UniqueViolation(rows, src, dst)
        THEN work
        ELSE rollback(cat, work)

\* the setters database.created, database.deleted, database.modified and
\* database.moved
created(cat, entities, outcome) == upsert_files(cat, entities, outcome)
deleted(cat, entities, outcome) == delete_files(cat, entities, outcome)
modified_setter(cat, entities, outcome) == set_rehash_files(cat, entities, outcome)
moved(cat, src, dst, outcome) == rename_files(cat, src, dst, outcome)

\* FileRowFactory: a row of table files read back as a File object
FileRowFactory(r) ==
    [kind |-> "File", volume |-> r.volume, path |-> r.path, parent |-> r.parent,
     size |-> r.size, ctime |-> r.ctime, mtime |-> r.mtime, atime |-> r.atime,
     sha256 |-> r.sha256, rehash |-> r.rehash]

\* where (sha256 is null or rehash = TRUE)
\* (variant: "and" for "or")
WhereModifiedAnd(r) == r.sha256 = Null /\ r.rehash = Some(TRUE)

WhereModified(r) == r.sha256 = Null \/ r.rehash = Some(TRUE)

\* order by size asc: every order of the rows the sort key allows (the order
\* of rows of equal size is the store's choice)
\* (variant: order by size desc)
OrderBySizeDesc(rows) ==
    {s \in [1..Cardinality(rows) -> rows] :
        /\ \A i, j \in DOMAIN s : i # j => s[i] # s[j]
        /\ \A i, j \in DOMAIN s : i < j => s[i].size >= s[j].size}

OrderBySize(rows) ==
    {s \in [1..Cardinality(rows) -> rows] :
        /\ \A i, j \in DOMAIN s : i # j => s[i] # s[j]
        /\ \A i, j \in DOMAIN s : i < j => s[i].size <= s[j].size}

\* limit n, added to the statement only if limit > 0
Limit(s, limit) ==
    IF limit > 0 /\ limit < Len(s) THEN SubSeq(s, 1, limit) ELSE s

\* the possible results of select_files(modified=True, limit=limit) on table
\* files; an exception inside leaves results = []
select_files(rows, limit, outcome) ==
    IF outcome = "none"
    THEN {[i \in DOMAIN Limit(s, limit) |-> FileRowFactory(Limit(s, limit)[i])] :
            s \in OrderBySize({r \in rows : WhereModified(r)})}
    ELSE {<<>>}

\* the limit of the getter database.modified
ModifiedLimit == 100

\* sha256sum(path): the digest, None when the file cannot be read
sha256sum(k, readable) ==
    IF readable THEN Some(hexdigest(disk[k].data)) ELSE Null

(***************************************************************************)
(* FileFinder.find: the listing of the volumes scanned.                    *)
(***************************************************************************)
\* os.listdir() of the volume: its top-level entries
listdir(volume) ==
    {k \in Keys : k.volume = volume /\ Len(k.path) = 1 /\ os_path_exists(k)}

\* pathlib.Path(topdir).glob("**/*"), without the '@eaDir' entries
glob(top) ==
    {k \in Keys : /\ k.volume = top.volume
                  /\ Len(k.path) > 1
                  /\ k.path[1] = top.path[1]
                  /\ os_path_exists(k)
                  /\ ~ re_search_eaDir(k.path)}

find_files(volumes) ==
    {FileBase("File", k.volume, k.path, Some(dirname(k.path)), os_stat(k)) :
        k \in {x \in UNION {glob(top) : top \in UNION {listdir(v) : v \in volumes}} :
                 is_file(x)}}

find_dirs(volumes) ==
    {FileBase("Dir", top.volume, top.path, Null, os_stat(top)) :
        top \in UNION {listdir(v) : v \in volumes}}
    \cup
    {FileBase("Dir", k.volume, k.path, Some(dirname(k.path)), os_stat(k)) :
        k \in {x \in UNION {glob(top) : top \in UNION {listdir(v) : v \in volumes}} :
                 is_dir(x)}}

(***************************************************************************)
(* History of the last catalog operation.                                  *)
(***************************************************************************)
\* op: the operation; outcome: "none" when it committed, else the statement
\* that raised ("empty": the call returned at once); entities: its argument;
\* limit: the limit of a selection; dst: the destination of a move; files, dirs, batch, hashed, skip: the tables
\* and the hashing loop's locals before it; prev: the operation before it
Op(op, table, outcome, entities) ==
    [op |-> op, table |-> table, outcome |-> outcome, entities |-> entities,
     limit |-> 0, dst |-> {}, files |-> files, dirs |-> dirs,
     batch |-> batch, hashed |-> hashed, skip |-> skip,
     prev |-> [op |-> last.op, table |-> last.table, outcome |-> last.outcome,
               entities |-> last.entities]]

NoOp ==
    [op |-> "none", table |-> "", outcome |-> "none", entities |-> {},
     limit |-> 0, dst |-> {}, files |-> {}, dirs |-> {},
     batch |-> <<>>, hashed |-> 0, skip |-> 0,
     prev |-> [op |-> "none", table |-> "", outcome |-> "none", entities |-> {}]]

Range(s) == {s[i] : i \in DOMAIN s}

Outcomes(points) ==
    {"none"} \cup (IF faults < MaxFaults THEN points ELSE {})

Fault(outcome) == IF outcome = "none" THEN faults ELSE faults + 1

(***************************************************************************)
(* The scanning driver: find() takes the listing, then the setters         *)
(* database.files and database.dirs reconcile one table each.              *)
(***************************************************************************)
Find(volumes) ==
    /\ pc = "idle"
    /\ scanned' = [files |-> find_files(volumes), dirs |-> find_dirs(volumes)]
    /\ pc' = "found"
    /\ UNCHANGED <<vanished, deletedInBatch, files, dirs, disk, modified, batch, hashed, saved, skip,
                   last, faults, calls>>

\* database.files = tuple(files)
SetFiles(failAt) ==
    /\ pc = "found"
    /\ calls < MaxCalls
    /\ files' = upsert_files_replace("files", files, scanned.files, failAt)
    /\ last' = Op("upsert_files_replace", "files",
                  IF scanned.files = {} THEN "empty" ELSE failAt, scanned.files)
    /\ faults' = IF scanned.files = {} THEN faults ELSE Fault(failAt)
    /\ calls' = calls + 1
    /\ UNCHANGED <<vanished, deletedInBatch, dirs, disk, pc, scanned, modified, batch, hashed, saved, skip>>

\* database.dirs = tuple(dirs)
SetDirs(failAt) ==
    /\ pc = "found"
    /\ calls < MaxCalls
    /\ dirs' = upsert_files_replace("dirs", dirs, scanned.dirs, failAt)
    /\ last' = Op("upsert_files_replace", "dirs",
                  IF scanned.dirs = {} THEN "empty" ELSE failAt, scanned.dirs)
    /\ faults' = IF scanned.dirs = {} THEN faults ELSE Fault(failAt)
    /\ calls' = calls + 1
    /\ UNCHANGED <<vanished, deletedInBatch, files, disk, pc, scanned, modified, batch, hashed, saved, skip>>

(***************************************************************************)
(* The hashing driver: FileFinder.calc_hash.                               *)
(***************************************************************************)
Catalog == [files |-> files, dirs |-> dirs]

CalcHash ==
    /\ pc = "idle"
    /\ calls < MaxCalls
    /\ pc' = "select"
    /\ hashed' = 0
    /\ saved' = 0
    /\ skip' = 0
    /\ vanished' = {}
    /\ deletedInBatch' = {}
    /\ calls' = calls + 1
    /\ UNCHANGED <<files, dirs, disk, scanned, modified, batch, last, faults>>

\* modified = self.database.modified; if len(modified) == 0: break; files = []
Select(limit, outcome) ==
    /\ pc = "select"
    /\ \E result \in select_files(files, limit, outcome) :
          /\ modified' = result
          /\ pc' = IF result = <<>> THEN "counter" ELSE "visit"
          /\ batch' = IF result = <<>> THEN batch ELSE <<>>
    /\ last' = [Op("select_files", "files", outcome, {}) EXCEPT !.limit = limit]
    /\ faults' = Fault(outcome)
    /\ UNCHANGED <<vanished, deletedInBatch, files, dirs, disk, scanned, hashed, saved, skip, calls>>

\* file.stat = os.stat(fullpath); file.sha256 = sha256sum(fullpath);
\* file.rehash = None
\* (variant: a failed digest leaves the selected sha256 in place)
HashedKeepsDigest(file, k, readable) ==
    [FileBase("File", file.volume, file.path, file.parent, os_stat(k))
        EXCEPT !.sha256 = IF readable THEN sha256sum(k, readable) ELSE file.sha256,
               !.rehash = Null]

Hashed(file, k, readable) ==
    [FileBase("File", file.volume, file.path, file.parent, os_stat(k))
        EXCEPT !.sha256 = sha256sum(k, readable), !.rehash = Null]

AfterVisit(elapsed) ==
    IF elapsed THEN "timed_flush"
    ELSE IF Tail(modified) = <<>> THEN "final_flush" ELSE "visit"

\* one round of "for file in modified", up to the timer check; elapsed: more
\* than 6 seconds have passed since the last flush
Visit(elapsed, outcome) ==
    /\ pc = "visit"
    /\ LET file == Head(modified)
           fullpath == Key(file.volume, file.path)
       IN  IF os_path_exists(fullpath)
           THEN /\ outcome \in {"none", "digest"}
                /\ batch' = Append(batch, Hashed(file, fullpath, outcome = "none"))
                /\ hashed' = hashed + 1
                /\ last' = Op("sha256sum", "files", outcome, {file})
                /\ UNCHANGED <<files, dirs, skip, vanished, deletedInBatch>>
           ELSE /\ outcome \in {"none", "delete"}
                /\ files' = delete_files(Catalog, <<file>>, outcome).files
                /\ dirs' = delete_files(Catalog, <<file>>, outcome).dirs
                /\ skip' = skip + 1
                /\ vanished' = IF outcome = "none"
                               THEN vanished \cup {fullpath} ELSE vanished
                /\ last' = Op("delete_files", "files", outcome, {file})
                /\ UNCHANGED <<batch, hashed, deletedInBatch>>
    /\ modified' = Tail(modified)
    /\ pc' = AfterVisit(elapsed)
    /\ faults' = Fault(outcome)
    /\ UNCHANGED <<disk, scanned, saved, calls>>

\* the same round for a file that another process rewrites after os.stat
\* (line 106) and before sha256sum opens it (line 107): the object carries the
\* size and times of the old content and the digest of the new
VisitRewritten(elapsed, data) ==
    /\ pc = "visit"
    /\ LET file == Head(modified)
           fullpath == Key(file.volume, file.path)
       IN  /\ os_path_exists(fullpath)
           /\ data # disk[fullpath].data
           /\ disk' = [disk EXCEPT ![fullpath] = Entry(data, disk[fullpath].st_mtime)]
           /\ batch' = Append(batch, [Hashed(file, fullpath, TRUE)
                                        EXCEPT !.sha256 = Some(hexdigest(data))])
           /\ last' = Op("sha256sum", "files", "none", {file})
    /\ hashed' = hashed + 1
    /\ modified' = Tail(modified)
    /\ pc' = AfterVisit(elapsed)
    /\ UNCHANGED <<files, dirs, scanned, saved, skip, vanished, deletedInBatch, faults, calls>>

\* self.database.updated = tuple(files); saved += len(files)
Flush(outcome) ==
    /\ files' = updated(Catalog, batch, outcome).files
    /\ dirs' = updated(Catalog, batch, outcome).dirs
    /\ saved' = saved + Len(batch)
    /\ last' = Op(IF Len(batch) > 0 THEN "upsert_files" ELSE "update_counter",
                  "files", outcome, Range(batch))
    /\ faults' = Fault(outcome)

\* the flush of the timer check, inside the for loop: files = []
TimedFlush(outcome) ==
    /\ pc = "timed_flush"
    /\ Flush(outcome)
    /\ batch' = <<>>
    /\ pc' = IF modified = <<>> THEN "final_flush" ELSE "visit"
    /\ UNCHANGED <<vanished, deletedInBatch, disk, scanned, modified, hashed, skip, calls>>

\* the flush after the for loop
FinalFlush(outcome) ==
    /\ pc = "final_flush"
    /\ Flush(outcome)
    /\ pc' = "select"
    /\ UNCHANGED <<vanished, deletedInBatch, disk, scanned, modified, batch, hashed, skip, calls>>

\* after the while loop: self.database.updated = ()
\* (variant: only when the run saved something)
UpdateCounterIfSaved(outcome) ==
    /\ pc = "counter"
    /\ dirs' = IF saved > 0 THEN updated(Catalog, <<>>, outcome).dirs ELSE dirs
    /\ last' = IF saved > 0 THEN Op("update_counter", "dirs", outcome, {}) ELSE last
    /\ faults' = Fault(outcome)
    /\ pc' = "idle"
    /\ UNCHANGED <<vanished, deletedInBatch, files, disk, scanned, modified, batch, hashed, saved, skip, calls>>

UpdateCounter(outcome) ==
    /\ pc = "counter"
    /\ dirs' = updated(Catalog, <<>>, outcome).dirs
    /\ last' = Op("update_counter", "dirs", outcome, {})
    /\ faults' = Fault(outcome)
    /\ pc' = "idle"
    /\ UNCHANGED <<vanished, deletedInBatch, files, disk, scanned, modified, batch, hashed, saved, skip, calls>>

(***************************************************************************)
(* The watcher: WatchEventHandler, one handler call per event.  The kind   *)
(* of the event (File.../Dir...) is the kind of the path it names.  An     *)
(* outcome "discarded" is an early return, "unique" a statement the        *)
(* primary key rejected.                                                   *)
(***************************************************************************)
KindOf(k) == IF k \in DirKeys THEN "Dir" ELSE "File"

Event(op, table, outcome, entities) ==
    /\ calls < MaxCalls
    /\ calls' = calls + 1
    /\ last' = Op(op, table, outcome, entities)
    /\ faults' = IF outcome = "execute" THEN faults + 1 ELSE faults
    /\ UNCHANGED <<disk, pc, scanned, modified, batch, hashed, saved, skip, vanished>>

on_created(k, outcome) ==
    IF re_search_eaDir(k.path) \/ ~ os_path_exists(k)
    THEN /\ Event("created", "", "discarded", {})
         /\ outcome = "none"
         /\ UNCHANGED <<files, dirs, deletedInBatch>>
    ELSE LET file == FileBase(KindOf(k), k.volume, k.path, Some(dirname(k.path)),
                              os_stat(k))
         IN  /\ Event("created", _table(file), outcome, {file})
             /\ files' = created(Catalog, <<file>>, outcome).files
             /\ dirs' = created(Catalog, <<file>>, outcome).dirs
             /\ UNCHANGED deletedInBatch

on_deleted(k, outcome) ==
    IF re_search_eaDir(k.path)
    THEN /\ Event("deleted", "", "discarded", {})
         /\ outcome = "none"
         /\ UNCHANGED <<files, dirs, deletedInBatch>>
    ELSE LET file == FileBaseNoStat(KindOf(k), k.volume, k.path, Null)
         IN  /\ Event("deleted", _table(file), outcome, {file})
             /\ files' = deleted(Catalog, <<file>>, outcome).files
             /\ dirs' = deleted(Catalog, <<file>>, outcome).dirs
             /\ deletedInBatch' =
                   IF /\ outcome = "none"
                      /\ pc \in {"visit", "timed_flush", "final_flush"}
                      /\ \E e \in Range(batch) : SameKey(e, file)
                      /\ ~ os_path_exists(k)
                   THEN deletedInBatch \cup {k} ELSE deletedInBatch

on_modified(k, outcome) ==
    IF re_search_eaDir(k.path)
    THEN /\ Event("modified", "", "discarded", {})
         /\ outcome = "none"
         /\ UNCHANGED <<files, dirs, deletedInBatch>>
    ELSE LET file == FileBaseNoStat(KindOf(k), k.volume, k.path, Null)
         IN  /\ Event("modified", _table(file), outcome, {file})
             /\ files' = modified_setter(Catalog, <<file>>, outcome).files
             /\ dirs' = modified_setter(Catalog, <<file>>, outcome).dirs
             /\ UNCHANGED deletedInBatch

on_moved(k, d, outcome) ==
    IF re_search_eaDir(k.path)
    THEN /\ Event("moved", "", "discarded", {})
         /\ outcome = "none"
         /\ UNCHANGED <<files, dirs, deletedInBatch>>
    ELSE LET src == FileBaseNoStat(KindOf(k), k.volume, k.path, Null)
             dst == FileBaseNoStat(KindOf(k), k.volume, d.path, Some(dirname(d.path)))
             rows == IF _table(src) = "files" THEN files ELSE dirs
             result == IF outcome = "none" /\ UniqueViolation(rows, src, dst)
                       THEN "unique" ELSE outcome
         IN  /\ calls < MaxCalls
             /\ calls' = calls + 1
             /\ last' = [Op("moved", _table(src), result, {src}) EXCEPT !.dst = {dst}]
             /\ faults' = IF outcome = "execute" THEN faults + 1 ELSE faults
             /\ files' = moved(Catalog, src, dst, outcome).files
             /\ dirs' = moved(Catalog, src, dst, outcome).dirs
             /\ UNCHANGED <<disk, pc, scanned, modified, batch, hashed, saved, skip,
                            vanished, deletedInBatch>>

\* the moves the watcher of one volume reports: both paths in its volume, of
\* one kind; KeyS is a destination in another directory, which nothing else
\* names
KeyS == Key("v1", <<"s", "a">>)
Moves == {<<k, d>> \in Keys \X (Keys \cup {KeyS}) :
            k # d /\ k.volume = d.volume /\ KindOf(k) = KindOf(d)}

(***************************************************************************)
(* Initial states.  After construction both tables are empty; the          *)
(* specifications of single operations start from the catalogs and disks   *)
(* below, which earlier scans, hash runs and events leave behind.          *)
(***************************************************************************)
EarlierEntry == Entry(<<"x">>, 0)
AnyEntry == {NoEntry} \cup {Entry(d, t) : d \in Contents, t \in Ticks}

\* the row an earlier scan inserted for file k, then hashed (h) or flagged (f)
FileRow(k, entry, h, f) ==
    [NewRow("files", FileBase("File", k.volume, k.path, Some(dirname(k.path)),
                              StatOf(entry)))
        EXCEPT !.sha256 = h, !.rehash = f]

\* the row of directory k: parent as the scan (None) or a Create event
\* (dirname) set it, count as update_counter left it
DirRow(k, entry, parent, count) ==
    [NewRow("dirs", FileBase("Dir", k.volume, k.path, parent, StatOf(entry)))
        EXCEPT !.count = count]

Disk(a, b, c, e, t1) ==
    [k \in Keys |->
        CASE k = KeyA -> a
          [] k = KeyB -> b
          [] k = KeyC -> c
          [] k = KeyE -> e
          [] k = TopV1 -> Entry(<<>>, t1)
          [] k = TopV2 -> Entry(<<>>, 0)]

RowsA ==
    {{}} \cup {{FileRow(KeyA, EarlierEntry, h, f)} :
                 h \in {Null, Some(hexdigest(<<"x">>))}, f \in {Null, Some(TRUE)}}
RowsB == {{}, {FileRow(KeyB, EarlierEntry, Some(hexdigest(<<"x">>)), Null)}}
RowsC == {{}, {FileRow(KeyC, EarlierEntry, Null, Null)}}
RowsTopV1 ==
    {{}} \cup {{DirRow(TopV1, Entry(<<>>, 0), p, c)} :
                 p \in {Null, Some(dirname(TopV1.path))}, c \in {Null, Some(0)}}
RowsTopV2 == {{}, {DirRow(TopV2, Entry(<<>>, 0), Null, Null)}}

InitDriver ==
    /\ scanned = [files |-> {}, dirs |-> {}]
    /\ modified = <<>>
    /\ batch = <<>>
    /\ hashed = 0
    /\ saved = 0
    /\ skip = 0
    /\ vanished = {}
    /\ deletedInBatch = {}
    /\ last = NoOp
    /\ faults = 0
    /\ calls = 0

\* DatabasePostgreSQL.__init__ / _create_tables: both tables exist and are empty
Init ==
    /\ files = {}
    /\ dirs = {}
    /\ disk \in {Disk(a, b, c, EarlierEntry, 0) :
                    a \in AnyEntry, b \in {NoEntry, EarlierEntry},
                    c \in {NoEntry, EarlierEntry}}
    /\ InitDriver
    /\ pc = "idle"

InitReconcile ==
    /\ InitDriver
    /\ pc = "idle"
    /\ \/ /\ \E ra \in RowsA, rb \in RowsB, rc \in RowsC : files = ra \cup rb \cup rc
          /\ dirs \in {{}, {DirRow(TopV1, Entry(<<>>, 0), Null, Null),
                            DirRow(TopV2, Entry(<<>>, 0), Null, Null)}}
          /\ disk \in {Disk(a, b, c, EarlierEntry, 0) :
                          a \in AnyEntry, b \in {NoEntry, EarlierEntry},
                          c \in {NoEntry, EarlierEntry}}
       \/ /\ files = {}
          /\ \E r1 \in RowsTopV1, r2 \in RowsTopV2 : dirs = r1 \cup r2
          /\ disk \in {Disk(EarlierEntry, NoEntry, NoEntry, EarlierEntry, t) :
                          t \in Ticks}

\* the scopes a caller scans (VOLUMES): one volume, or all of them
ScanScopes == {{"v1"}, Volumes}

NextReconcile ==
    \/ \E volumes \in ScanScopes : Find(volumes)
    \/ \E failAt \in Outcomes(FailPoints) : SetFiles(failAt)
    \/ \E failAt \in Outcomes(FailPoints) : SetDirs(failAt)

SpecReconcile == InitReconcile /\ [][NextReconcile]_vars

(***************************************************************************)
(* select_files on its own: any table of files of several sizes, hashed,   *)
(* unhashed or flagged, and any limit from 1 to MaxLimit.                  *)
(***************************************************************************)
SizedEntries == {Entry(<<>>, 0), Entry(<<"x">>, 0), Entry(<<"x", "y">>, 0)}
HashStates == {<<Null, Null>>, <<Some(hexdigest(<<"x">>)), Null>>,
               <<Some(hexdigest(<<"x">>)), Some(TRUE)>>}
RowsOf(k) ==
    {{}} \cup {{FileRow(k, en, hs[1], hs[2])} : en \in SizedEntries, hs \in HashStates}

InitSelect ==
    /\ InitDriver
    /\ pc = "select"
    /\ \E ra \in RowsOf(KeyA), rb \in RowsOf(KeyB), rc \in RowsOf(KeyC) :
          files = ra \cup rb \cup rc
    /\ dirs = {}
    /\ disk = Disk(NoEntry, NoEntry, NoEntry, NoEntry, 0)

NextSelect ==
    \E limit \in 1..MaxLimit : Select(limit, "none")

SpecSelect == InitSelect /\ [][NextSelect]_vars

(***************************************************************************)
(* calc_hash on catalogs that earlier scans and events left behind, with   *)
(* no other writer.                                                        *)
(***************************************************************************)
InitHash ==
    /\ InitDriver
    /\ pc = "idle"
    /\ \E ra \in RowsA, rb \in {{}, {FileRow(KeyB, EarlierEntry, Null, Null)}},
          rc \in {{}, {FileRow(KeyC, EarlierEntry, Some(hexdigest(<<"x">>)), Some(TRUE))}} :
          files = ra \cup rb \cup rc
    /\ dirs = {DirRow(TopV1, Entry(<<>>, 0), Null, Null),
               DirRow(TopV2, Entry(<<>>, 0), Null, Null)}
    /\ disk \in {Disk(a, b, c, NoEntry, 0) :
                    a \in AnyEntry, b \in {NoEntry, Entry(<<>>, 0)},
                    c \in {NoEntry, EarlierEntry}}

NextHash ==
    \/ CalcHash
    \/ \E outcome \in Outcomes({"select"}) : Select(ModifiedLimit, outcome)
    \/ \E elapsed \in BOOLEAN, outcome \in Outcomes({"digest", "delete"}) :
          Visit(elapsed, outcome)
    \/ \E outcome \in Outcomes({"execute"}) : TimedFlush(outcome)
    \/ \E outcome \in Outcomes({"execute"}) : FinalFlush(outcome)
    \/ \E outcome \in Outcomes({"execute"}) : UpdateCounter(outcome)

SpecHash == InitHash /\ [][NextHash]_vars

(***************************************************************************)
(* The watcher on its own: events, some of them rejected by the store,     *)
(* applied to catalogs that scans and hash runs left behind.               *)
(***************************************************************************)
InitEvents ==
    /\ InitDriver
    /\ pc = "idle"
    /\ \E ra \in RowsA, rb \in RowsB : files = ra \cup rb
    /\ dirs \in {{}, {DirRow(TopV1, Entry(<<>>, 0), Null, Null)}}
    /\ disk \in {Disk(a, EarlierEntry, NoEntry, EarlierEntry, MaxTick) :
                    a \in {NoEntry, Entry(<<"x", "y">>, MaxTick)}}

\* the paths the handler of volume v1 is told about
EventKeys == {k \in Keys : k.volume = "v1"}

NextEvents ==
    \/ \E k \in EventKeys, outcome \in Outcomes({"execute"}) : on_created(k, outcome)
    \/ \E k \in EventKeys, outcome \in Outcomes({"execute"}) : on_deleted(k, outcome)
    \/ \E k \in EventKeys, outcome \in Outcomes({"execute"}) : on_modified(k, outcome)
    \/ \E mv \in Moves, outcome \in Outcomes({"execute"}) : on_moved(mv[1], mv[2], outcome)

SpecEvents == InitEvents /\ [][NextEvents]_vars

(***************************************************************************)
(* calc_hash run to its end: no other writer, a disk that does not change, *)
(* every digest and every statement succeeding.  calc_hash is sequential   *)
(* code, so each of its steps is eventually taken.  Limits below the       *)
(* getter's 100 stand for catalogs with more rows than one selection holds.*)
(***************************************************************************)
NextTerminate ==
    \/ CalcHash
    \/ \E limit \in (1..MaxLimit) \cup {ModifiedLimit} : Select(limit, "none")
    \/ \E elapsed \in BOOLEAN : Visit(elapsed, "none")
    \/ TimedFlush("none")
    \/ FinalFlush("none")
    \/ UpdateCounter("none")

SpecTerminate == InitHash /\ [][NextTerminate]_vars /\ WF_vars(NextTerminate)

(***************************************************************************)
(* update_counter at the end of calc_hash runs over freshly scanned,       *)
(* unhashed files of equal and different contents, on a disk that other    *)
(* processes write to while the loop runs.                                 *)
(***************************************************************************)
CountedContents == {<<>>, <<"x">>, <<"y">>}

InitCount ==
    /\ InitDriver
    /\ pc = "idle"
    /\ files = {FileRow(KeyA, EarlierEntry, Null, Null),
                FileRow(KeyB, EarlierEntry, Null, Null),
                FileRow(KeyC, EarlierEntry, Null, Null)}
    /\ dirs = {DirRow(TopV1, Entry(<<>>, 0), Null, Null),
               DirRow(TopV2, Entry(<<>>, 0), Null, Null)}
    /\ disk \in {Disk(Entry(a, 0), Entry(b, 0), c, NoEntry, 0) :
                    a \in CountedContents, b \in {<<>>, <<"x">>},
                    c \in {NoEntry, Entry(<<>>, 0), Entry(<<"x">>, 0)}}

NextCount ==
    \/ CalcHash
    \/ Select(ModifiedLimit, "none")
    \/ \E elapsed \in BOOLEAN : Visit(elapsed, "none")
    \/ \E elapsed \in BOOLEAN, data \in CountedContents : VisitRewritten(elapsed, data)
    \/ TimedFlush("none")
    \/ FinalFlush("none")
    \/ UpdateCounter("none")

SpecCount == InitCount /\ [][NextCount]_vars

(***************************************************************************)
(* The whole program: the scanner and the hashing loop of volumefind.py    *)
(* and, in its own process and on its own connection, the watcher, whose   *)
(* events are applied between any two steps of the other two.              *)
(***************************************************************************)
InitAll ==
    /\ InitDriver
    /\ pc = "idle"
    /\ \E ra \in {{}, {FileRow(KeyA, EarlierEntry, Some(hexdigest(<<"x">>)), Some(TRUE))}} :
          files = ra \cup {FileRow(KeyB, EarlierEntry, Some(hexdigest(<<"x">>)), Null)}
    /\ dirs = {DirRow(TopV1, Entry(<<>>, 0), Null, Null)}
    /\ disk = Disk(Entry(<<"x", "y">>, MaxTick), NoEntry, NoEntry, EarlierEntry, 0)

Next ==
    \/ NextReconcile
    \/ NextHash
    \/ NextEvents

Spec == InitAll /\ [][Next]_vars

(***************************************************************************)
(* Claims about Reconcile (upsert_files_replace), checked under            *)
(* SpecReconcile.  Table(t) is the table now, Before(t) the table before   *)
(* the last operation.                                                     *)
(***************************************************************************)
Table(t) == IF t = "files" THEN files ELSE dirs
Before(t) == IF t = "files" THEN last.files ELSE last.dirs
Reconciled == last.op = "upsert_files_replace" /\ last.outcome = "none"
InScanned(r) == \E e \in last.entities : SameKey(r, e)
VolumeScanned(r) == \E e \in last.entities : e.volume = r.volume

\* C1: after a successful Reconcile with non-empty S, every row of that kind
\* whose volume does not occur in S is still present with all fields unchanged.
C1_UnscannedVolumesUntouched ==
    Reconciled =>
        \A r \in Before(last.table) : ~ VolumeScanned(r) => r \in Table(last.table)

\* C2: after a successful Reconcile with non-empty S, every entity of S has a
\* row with its key whose parent, size, ctime, mtime and atime are the entity's.
C2_UpsertCoverage ==
    Reconciled =>
        \A e \in last.entities :
            \E r \in Table(last.table) :
                /\ SameKey(r, e)
                /\ r.parent = e.parent
                /\ r.size = e.size
                /\ r.ctime = e.ctime
                /\ r.mtime = e.mtime
                /\ r.atime = e.atime

\* C3: after a successful Reconcile with non-empty S, every prior row in a
\* volume occurring in S whose key is absent from S is deleted, and no row
\* whose key is in S is deleted.
C3_PruneCoverage ==
    Reconciled =>
        \A r \in Before(last.table) :
            /\ (VolumeScanned(r) /\ ~ InScanned(r))
                   => ~ \E x \in Table(last.table) : SameKey(x, r)
            /\ InScanned(r) => \E x \in Table(last.table) : SameKey(x, r)

C3_Witness ==
    /\ Reconciled
    /\ \E r \in Before(last.table) : VolumeScanned(r) /\ ~ InScanned(r)
    /\ \E r \in Before(last.table) : InScanned(r)

\* C4: for every file already in the catalog and scanned, Reconcile sets rehash
\* to TRUE if the scanned size or mtime differs from the stored one and leaves
\* rehash as it was otherwise; sha256 is unchanged in both cases.
C4_RehashCorrectness ==
    (Reconciled /\ last.table = "files") =>
        \A r \in last.files : \A e \in last.entities :
            SameKey(r, e) =>
                \E x \in files :
                    /\ SameKey(x, r)
                    /\ x.sha256 = r.sha256
                    /\ x.rehash = IF r.size # e.size \/ r.mtime # e.mtime
                                  THEN Some(TRUE) ELSE r.rehash

C4_Witness ==
    /\ Reconciled
    /\ last.table = "files"
    /\ \E r \in last.files : \E e \in last.entities : \E x \in files :
          /\ SameKey(r, e) /\ SameKey(x, r)
          /\ (r.size # e.size \/ r.mtime # e.mtime)
          /\ r.sha256 # Null /\ r.rehash = Null
          /\ x.rehash = Some(TRUE) /\ x.sha256 = r.sha256
    /\ \E r \in last.files : \E e \in last.entities :
          /\ SameKey(r, e)
          /\ r.size = e.size /\ r.mtime = e.mtime
          /\ r.sha256 # Null
          /\ r \in files

\* C5: a store failure in any phase of Reconcile (copy, upsert, delete) leaves
\* both tables as they were before the call.
C5_Atomic ==
    (last.op = "upsert_files_replace" /\ last.outcome \in FailPoints) =>
        files = last.files /\ dirs = last.dirs

C5_Witness ==
    /\ last.op = "upsert_files_replace"
    /\ last.outcome = "delete"
    /\ InsertFromStaged(last.table, Before(last.table), files_exist(last.entities))
           # Before(last.table)
    /\ Table(last.table) = Before(last.table)

\* C6: Reconcile with an empty scanned sequence changes no row of either kind.
C6_EmptyIsNoOp ==
    (last.op = "upsert_files_replace" /\ last.outcome = "empty") =>
        files = last.files /\ dirs = last.dirs

C6_Witness ==
    /\ last.op = "upsert_files_replace"
    /\ last.outcome = "empty"
    /\ last.entities = {}
    /\ Before(last.table) # {}
    /\ Table(last.table) = Before(last.table)

\* C7: Reconcile(kind, S) right after a successful Reconcile(kind, S) leaves
\* the catalog as the first call left it.
C7_Idempotent ==
    (/\ last.op = "upsert_files_replace"
     /\ last.prev.op = "upsert_files_replace"
     /\ last.prev.table = last.table
     /\ last.prev.entities = last.entities
     /\ last.prev.outcome \in {"none", "empty"}) =>
        files = last.files /\ dirs = last.dirs

C7_Witness ==
    /\ Reconciled
    /\ last.table = "files"
    /\ last.prev.op = "upsert_files_replace"
    /\ last.prev.table = "files"
    /\ last.prev.entities = last.entities
    /\ last.prev.outcome = "none"
    /\ \E r \in files : \E e \in last.entities :
          SameKey(r, e) /\ r.size # e.size /\ r.rehash = Some(TRUE)
    /\ files = last.files

(***************************************************************************)
(* Claims about select_files (SpecSelect) and calc_hash (SpecHash).        *)
(***************************************************************************)
Qualifying == {r \in files : r.sha256 = Null \/ r.rehash = Some(TRUE)}
Selected == last.op = "select_files" /\ last.outcome = "none"

\* C8: the selection holds only file rows whose sha256 is null or whose rehash
\* is TRUE, each once, in ascending order of size, at most limit of them, and
\* when more than limit rows qualify, the limit smallest of them.
C8_SelectModified ==
    (Selected /\ pc \in {"visit", "counter"}) =>
        /\ \A i \in DOMAIN modified :
              \E r \in Qualifying : FileRowFactory(r) = modified[i]
        /\ \A i, j \in DOMAIN modified : i # j => modified[i] # modified[j]
        /\ \A i, j \in DOMAIN modified : i < j => modified[i].size <= modified[j].size
        /\ Len(modified) <= last.limit
        /\ Cardinality(Qualifying) > last.limit =>
              /\ Len(modified) = last.limit
              /\ \A r \in Qualifying :
                    (~ \E i \in DOMAIN modified : modified[i] = FileRowFactory(r))
                        => \A i \in DOMAIN modified : modified[i].size <= r.size

C8_Witness ==
    /\ Selected
    /\ Cardinality(Qualifying) > last.limit
    /\ Len(modified) = last.limit
    /\ files # Qualifying
    /\ \E r \in Qualifying : r.size > modified[Len(modified)].size
    /\ \E r \in files \ Qualifying : r.size < modified[1].size

\* C9: once a batch is flushed successfully, every file of it that was on disk
\* and whose digest was computed has a row with sha256 = that digest, rehash
\* not TRUE, size and mtime those of the live stat, and is no longer eligible
\* for selection.
C9_HashingSuccess ==
    (last.op = "upsert_files" /\ last.outcome = "none") =>
        \A e \in last.entities :
            e.sha256 # Null =>
                \E r \in files :
                    /\ SameKey(r, e)
                    /\ r.sha256 = Some(hexdigest(disk[KeyOf(e)].data))
                    /\ r.rehash # Some(TRUE)
                    /\ r.size = os_stat(KeyOf(e)).st_size
                    /\ r.mtime = fromtimestamp(os_stat(KeyOf(e)).st_mtime)
                    /\ r \notin Qualifying

C9_Witness ==
    /\ last.op = "upsert_files"
    /\ last.outcome = "none"
    /\ \E e \in last.entities : \E b \in last.files : \E r \in files :
          /\ SameKey(b, e) /\ SameKey(r, e)
          /\ b.rehash = Some(TRUE)
          /\ b.sha256 # Null /\ b.sha256 # e.sha256
          /\ b.size # e.size
          /\ r.sha256 = e.sha256 /\ r.rehash = Null /\ r.size = e.size

\* C10: a selected file that is no longer on disk is counted as skipped, is not
\* hashed and is not added to the batch; its row is deleted (it stays, to be
\* selected again, only when the store rejects the deletion), and nothing in
\* the rest of the loop brings a deleted row back.
C10_VanishedFile ==
    /\ last.op = "delete_files" =>
          /\ skip = last.skip + 1
          /\ hashed = last.hashed
          /\ batch = last.batch
          /\ last.outcome = "none" =>
                \A e \in last.entities : ~ \E r \in files : SameKey(r, e)
          /\ last.outcome # "none" => files = last.files
    /\ \A k \in vanished :
          /\ ~ \E r \in files : KeyOf(r) = k
          /\ ~ \E i \in DOMAIN batch : KeyOf(batch[i]) = k

C10_Witness ==
    /\ pc = "idle"
    /\ last.op = "update_counter"
    /\ vanished # {}
    /\ skip > 0
    /\ hashed > 0
    /\ \A k \in vanished : ~ os_path_exists(k) /\ ~ \E r \in files : KeyOf(r) = k

\* C11: with no other writer, an unchanging disk and every digest and store
\* write succeeding, a hashing loop that has started eventually gets an empty
\* selection and stops, and at that point no file row has sha256 null or
\* rehash TRUE.
C11_LoopTerminates ==
    (pc = "select") ~> (pc = "counter" /\ modified = <<>> /\ Qualifying = {})

C11_Witness ==
    /\ pc = "counter"
    /\ Selected
    /\ Qualifying = {}
    /\ hashed > 1
    /\ skip > 0
    /\ saved = hashed

\* C12: a file whose digest cannot be computed is still appended to the batch,
\* with sha256 null; a committed flush stores the null for it and the digests
\* of the other entries of the batch; its row stays eligible and the next
\* selection returns it.
C12_DigestFailureIsLocal ==
    /\ (last.op = "sha256sum" /\ last.outcome = "digest") =>
          /\ Len(batch) = Len(last.batch) + 1
          /\ hashed = last.hashed + 1
          /\ batch[Len(batch)].sha256 = Null
          /\ \A e \in last.entities : KeyOf(batch[Len(batch)]) = KeyOf(e)
    /\ (last.op = "upsert_files" /\ last.outcome = "none") =>
          \A e \in last.entities :
              \E r \in files :
                  /\ SameKey(r, e)
                  /\ r.sha256 = e.sha256
                  /\ e.sha256 = Null => r \in Qualifying
    /\ (Selected /\ last.prev.op = "upsert_files" /\ last.prev.outcome = "none") =>
          \A e \in last.prev.entities :
              e.sha256 = Null => \E i \in DOMAIN modified : KeyOf(modified[i]) = KeyOf(e)
    /\ Selected =>
          \A r \in files :
              r.sha256 = Null => \E i \in DOMAIN modified : KeyOf(modified[i]) = KeyOf(r)

C12_Witness ==
    /\ Selected
    /\ last.prev.op = "upsert_files"
    /\ last.prev.outcome = "none"
    /\ \E e1, e2 \in last.prev.entities :
          /\ e1.sha256 = Null
          /\ e2.sha256 # Null
          /\ \E i \in DOMAIN modified : KeyOf(modified[i]) = KeyOf(e1)
          /\ ~ \E i \in DOMAIN modified : KeyOf(modified[i]) = KeyOf(e2)
          /\ \E r \in files : SameKey(r, e2) /\ r.sha256 = e2.sha256

(***************************************************************************)
(* Claims about the rehash flag over scans, hash runs and events (Spec).   *)
(***************************************************************************)
\* the last operation was a committed flush that wrote for row r a digest
\* computed in this run
NewDigestWritten(r) ==
    /\ last.op = "upsert_files"
    /\ last.outcome = "none"
    /\ \E e \in last.entities : SameKey(e, r) /\ e.sha256 # Null /\ r.sha256 = e.sha256

C14_CounterFollowsLoop ==
    /\ pc = "counter" => (last.op = "select_files" /\ modified = <<>>)
    /\ (pc = "idle" /\ calls > 0) =>
          /\ last.op = "update_counter"
          /\ last.table = "dirs"
          /\ last.prev.op = "select_files"
          /\ last.files = files

C14_Witness ==
    /\ pc = "idle"
    /\ calls > 0
    /\ hashed = 0 /\ skip = 0 /\ saved = 0
    /\ last.op = "update_counter"
    /\ last.outcome = "none"
    /\ dirs # last.dirs

\* the child files of directory d that count: size > 0 and a non-null sha256
\* that another row of files has too
Children(d) == {f \in files : f.volume = d.volume /\ f.parent = Some(d.path)}
Counted == last.op = "update_counter" /\ last.outcome = "none"

\* C15: immediately after a committed update_counter, the count of every
\* directory is the number of its child files of size > 0 whose non-null
\* sha256 at least one other file of the catalog has too (0 if there is none).
C15_DuplicateCount ==
    Counted =>
        \A d \in dirs :
            d.count = Some(Cardinality(
                {f \in Children(d) :
                    /\ f.size > 0
                    /\ f.sha256 # Null
                    /\ \E g \in files : g # f /\ g.sha256 = f.sha256}))

C15_Witness ==
    /\ Counted
    /\ \E d \in dirs :
          /\ d.count = Some(1)
          /\ \E f, u \in Children(d) :
                /\ f.size > 0 /\ u.size > 0
                /\ f.sha256 # Null /\ u.sha256 # Null
                /\ f.sha256 # u.sha256
                /\ \E g \in files \ Children(d) : g.sha256 = f.sha256
    /\ \E d \in dirs : d.count = Some(1) /\ Cardinality(Children(d)) = 1

\* C16: a sha256 counts as duplicated only if two or more files of size > 0
\* have it, so after a committed update_counter no file counts whose sha256
\* only zero-size files share.
C16_ZeroSizeExcluded ==
    Counted =>
        \A d \in dirs :
            d.count = Some(Cardinality(
                {f \in Children(d) :
                    /\ f.size > 0
                    /\ f.sha256 # Null
                    /\ \E g \in files : g # f /\ g.size > 0 /\ g.sha256 = f.sha256}))

(***************************************************************************)
(* Claims about the watcher's events (SpecEvents).                         *)
(***************************************************************************)
\* C17: after a Move event whose source key has a row, the row has the
\* sha256, rehash, size and times it had; if no row had the destination key
\* and the store committed, that row is now under the destination path and
\* parent and no row has the source key; otherwise the table is as it was; no
\* other row is touched.
C17_MovePreservesContent ==
    (last.op = "moved" /\ last.outcome # "discarded") =>
        \A src \in last.entities : \A dst \in last.dst : \A b \in last.files :
            SameKey(b, src) =>
                LET there == [b EXCEPT !.volume = dst.volume, !.path = dst.path,
                                       !.parent = dst.parent]
                    free == ~ \E q \in last.files : SameKey(q, dst)
                IN  /\ (free /\ last.outcome = "none") =>
                          /\ there \in files
                          /\ ~ \E r \in files : SameKey(r, src)
                    /\ ~ (free /\ last.outcome = "none") => files = last.files
                    /\ {r \in files : ~ SameKey(r, src) /\ ~ SameKey(r, dst)}
                          = {r \in last.files : ~ SameKey(r, src) /\ ~ SameKey(r, dst)}
                    /\ dirs = last.dirs

C17_Witness ==
    /\ last.op = "moved"
    /\ last.outcome = "none"
    /\ \E src \in last.entities : \E dst \in last.dst : \E b \in last.files :
          /\ SameKey(b, src)
          /\ b.sha256 # Null /\ b.rehash = Some(TRUE)
          /\ b.parent # dst.parent
          /\ b \notin files
          /\ [b EXCEPT !.path = dst.path, !.parent = dst.parent] \in files

EventOps == {"created", "deleted", "modified", "moved"}
Rejected == last.op \in EventOps /\ last.outcome \in {"execute", "unique"}
UniqueKeys(rows) == \A r, q \in rows : SameKey(r, q) => r = q

\* C18: an event the store rejects leaves both tables as they were, so what
\* earlier events did remains; an event after a rejected one has its usual
\* effect; and no table ever has two rows with one (volume, path).
C18_EventIsolation ==
    /\ Rejected => (files = last.files /\ dirs = last.dirs)
    /\ UniqueKeys(files)
    /\ UniqueKeys(dirs)
    /\ (last.prev.op \in EventOps /\ last.prev.outcome \in {"execute", "unique"}
          /\ last.outcome = "none") =>
          LET before == [files |-> last.files, dirs |-> last.dirs]
              e == CHOOSE x \in last.entities : TRUE
          IN  CASE last.op = "created" -> Catalog = upsert_files(before, <<e>>, "none")
                [] last.op = "deleted" -> Catalog = delete_files(before, <<e>>, "none")
                [] last.op = "modified" -> Catalog = set_rehash_files(before, <<e>>, "none")
                [] last.op = "moved" ->
                      Catalog = rename_files(before, e, CHOOSE d \in last.dst : TRUE, "none")
                [] OTHER -> TRUE

C18_Witness ==
    /\ last.op = "moved"
    /\ last.outcome = "unique"
    /\ last.prev.op = "created"
    /\ last.prev.outcome = "none"
    /\ files = last.files
    /\ \E e \in last.prev.entities : \E r \in files :
          SameKey(r, e) /\ r.size = e.size /\ r.sha256 = Null
    /\ \E dst \in last.dst : \E e \in last.prev.entities : SameKey(dst, e)

\* C19: an event that carries a path matching '@eaDir', as its source or as
\* the destination of a move, changes nothing, so no event leaves a row under
\* such a path that was not there before.
C19_ExcludedPathsDiscarded ==
    last.op \in EventOps =>
        /\ \A r \in files : re_search_eaDir(r.path) => r \in last.files
        /\ \A r \in dirs : re_search_eaDir(r.path) => r \in last.dirs
        /\ (\E d \in last.dst : re_search_eaDir(d.path)) =>
              (files = last.files /\ dirs = last.dirs)

\* C20: a committed Create event for a key with no row inserts one row with
\* the event's parent and metadata; for a key with a row it updates that row
\* (for a file, sha256 and rehash become null); no other row changes; and the
\* same Create applied a second time in succession changes nothing.
C20_CreateIsIdempotentUpsert ==
    (last.op = "created" /\ last.outcome = "none") =>
        \A e \in last.entities :
            LET before == IF last.table = "files" THEN last.files ELSE last.dirs
                after == IF last.table = "files" THEN files ELSE dirs
                other == IF last.table = "files" THEN dirs = last.dirs
                         ELSE files = last.files
                old == {b \in before : SameKey(b, e)}
                new == {r \in after : SameKey(r, e)}
            IN  /\ other
                /\ after \ new = before \ old
                /\ Cardinality(new) = 1
                /\ \A r \in new :
                      /\ r.parent = e.parent /\ r.size = e.size /\ r.ctime = e.ctime
                      /\ r.mtime = e.mtime /\ r.atime = e.atime
                      /\ last.table = "files" => (r.sha256 = Null /\ r.rehash = Null)
                      /\ last.table = "dirs" =>
                            r.count = (IF old = {} THEN Null
                                       ELSE (CHOOSE b \in old : TRUE).count)
                /\ (last.prev.op = "created" /\ last.prev.outcome = "none"
                      /\ last.prev.entities = last.entities) =>
                      (files = last.files /\ dirs = last.dirs)

C20_Witness ==
    /\ last.op = "created"
    /\ last.outcome = "none"
    /\ last.prev.op = "created"
    /\ last.prev.outcome = "none"
    /\ last.prev.entities = last.entities
    /\ files = last.files
    /\ \E e \in last.entities : \E r \in files : SameKey(r, e) /\ r.size = e.size

\* C21: a committed Modify event for a file that has a row sets rehash of that
\* row to TRUE and changes no other field and no other row; a Modify event for
\* a directory, or for a key with no row, or one the store rejects, leaves both
\* tables as they were.
C21_ModifyFlagsRehash ==
    (last.op = "modified" /\ last.outcome # "discarded") =>
        \A e \in last.entities :
            /\ dirs = last.dirs
            /\ (e.kind = "File" /\ last.outcome = "none") =>
                  /\ \A b \in last.files :
                        IF SameKey(b, e)
                        THEN [b EXCEPT !.rehash = Some(TRUE)] \in files
                        ELSE b \in files
                  /\ Cardinality(files) = Cardinality(last.files)
            /\ (e.kind = "Dir" \/ last.outcome # "none"
                  \/ ~ \E b \in last.files : SameKey(b, e)) =>
                  files = last.files

C21_Witness ==
    /\ last.op = "modified"
    /\ last.outcome = "none"
    /\ Cardinality(files) > 1
    /\ \E e \in last.entities : \E b \in last.files :
          /\ SameKey(b, e)
          /\ b.rehash = Null /\ b.sha256 # Null
          /\ b \notin files
          /\ [b EXCEPT !.rehash = Some(TRUE)] \in files

\* C22: a committed Delete event removes the row with the event's key from
\* the table of the event's kind and nothing else; for a key with no row, as
\* in a repeated Delete, it commits and both tables are as they were.
C22_DeleteRemovesRow ==
    (last.op = "deleted" /\ last.outcome = "none") =>
        \A e \in last.entities :
            LET before == IF last.table = "files" THEN last.files ELSE last.dirs
                after == IF last.table = "files" THEN files ELSE dirs
            IN  /\ last.table = (IF e.kind = "File" THEN "files" ELSE "dirs")
                /\ after = {b \in before : KeyOf(b) # KeyOf(e)}
                /\ IF last.table = "files" THEN dirs = last.dirs ELSE files = last.files
                /\ (~ \E b \in before : SameKey(b, e)) =>
                      (files = last.files /\ dirs = last.dirs)
                /\ (last.prev.op = "deleted" /\ last.prev.outcome = "none"
                      /\ last.prev.entities = last.entities) =>
                      (files = last.files /\ dirs = last.dirs)

C22_Witness ==
    /\ last.op = "deleted"
    /\ last.outcome = "none"
    /\ files # {}
    /\ \E e \in last.entities : \E b \in last.files :
          /\ SameKey(b, e)
          /\ files = last.files \ {b}
          /\ Cardinality(last.files) = Cardinality(files) + 1

(***************************************************************************)
(* Claims about the watcher and volumefind.py writing to one catalog.      *)
(***************************************************************************)
\* C23: when a Modify event for a file commits after the hashing loop has
\* computed the file's digest and before the loop flushes the batch that holds
\* it, the row has rehash TRUE or sha256 null after that flush.
C23_ModifyNotLost ==
    (last.op = "upsert_files" /\ last.outcome = "none"
        /\ last.prev.op = "modified" /\ last.prev.outcome = "none") =>
        \A m \in last.prev.entities : \A e \in last.entities :
            SameKey(m, e) =>
                \A r \in files :
                    SameKey(r, e) => (r.rehash = Some(TRUE) \/ r.sha256 = Null)

(***************************************************************************)
(* A scan while the watcher runs: another program creates a file on the    *)
(* share, the watcher is told and stats it, and find() takes its listing   *)
(* before or after that.                                                   *)
(***************************************************************************)
\* a file appears at path k; the watcher's os.path.exists(fullpath) and
\* os.stat(fullpath) see it from now on
FileCreated(k, entry) ==
    /\ ~ os_path_exists(k)
    /\ disk' = [disk EXCEPT ![k] = entry]
    /\ UNCHANGED <<files, dirs, pc, scanned, modified, batch, hashed, saved, skip,
                   vanished, deletedInBatch, last, faults, calls>>

InitScanRace ==
    /\ InitDriver
    /\ pc = "idle"
    /\ \E rb \in RowsB : files = rb
    /\ dirs = {DirRow(TopV1, Entry(<<>>, 0), Null, Null)}
    /\ disk = Disk(NoEntry, EarlierEntry, NoEntry, NoEntry, 0)

NextScanRace ==
    \/ \E volumes \in ScanScopes : Find(volumes)
    \/ \E failAt \in Outcomes(FailPoints) : SetFiles(failAt)
    \/ \E failAt \in Outcomes(FailPoints) : SetDirs(failAt)
    \/ \E t \in Ticks : FileCreated(KeyA, Entry(<<"x">>, t))
    \/ \E k \in EventKeys, outcome \in Outcomes({"execute"}) : on_created(k, outcome)

SpecScanRace == InitScanRace /\ [][NextScanRace]_vars

\* C24: when a Create event has inserted the row of a file that is not in the
\* listing the scanner holds, and the scanner then commits its reconcile of
\* the files table, the row of the created file is still in the table.
C24_CreateSurvivesScan ==
    (last.op = "upsert_files_replace" /\ last.table = "files"
        /\ last.outcome = "none"
        /\ last.prev.op = "created" /\ last.prev.table = "files"
        /\ last.prev.outcome = "none") =>
        \A e \in last.prev.entities :
            (/\ ~ \E s \in last.entities : SameKey(s, e)
             /\ \E b \in last.files : SameKey(b, e)) =>
                \E r \in files : SameKey(r, e)

(***************************************************************************)
(* calc_hash while the watcher runs: another program removes files from    *)
(* the share and the watcher applies their Delete events, between any two  *)
(* steps of the loop.  Every digest and every statement succeeds.          *)
(***************************************************************************)
\* the file at path k is removed; os.path.exists(fullpath) is False from now on
FileRemoved(k) ==
    /\ os_path_exists(k)
    /\ disk' = [disk EXCEPT ![k] = NoEntry]
    /\ UNCHANGED <<files, dirs, pc, scanned, modified, batch, hashed, saved, skip,
                   vanished, deletedInBatch, last, faults, calls>>

InitDeleteRace ==
    /\ InitDriver
    /\ pc = "idle"
    /\ \E ra \in RowsA, rb \in {{}, {FileRow(KeyB, EarlierEntry, Null, Null)}} :
          files = ra \cup rb
    /\ dirs = {DirRow(TopV1, Entry(<<>>, 0), Null, Null)}
    /\ disk = Disk(Entry(<<"x", "y">>, MaxTick), Entry(<<>>, 0), NoEntry, NoEntry, 0)

NextDeleteRace ==
    \/ CalcHash
    \/ \E limit \in (1..MaxLimit) \cup {ModifiedLimit} : Select(limit, "none")
    \/ \E elapsed \in BOOLEAN : Visit(elapsed, "none")
    \/ TimedFlush("none")
    \/ FinalFlush("none")
    \/ UpdateCounter("none")
    \/ \E k \in {KeyA, KeyB} : FileRemoved(k)
    \/ \E k \in {KeyA, KeyB} : on_deleted(k, "none")

SpecDeleteRace == InitDeleteRace /\ [][NextDeleteRace]_vars

\* C25: a file that the loop hashed, that was then removed from disk and whose
\* row a Delete event deleted before the loop flushed the batch holding it, has
\* no row when the loop has terminated; the row that the flush inserts again
\* has a null sha256 and rehash, so that it is selected again.
C25_DeletionNotResurrected ==
    /\ pc \in {"counter", "idle"} =>
          \A k \in deletedInBatch :
              ~ os_path_exists(k) => ~ \E r \in files : KeyOf(r) = k
    /\ (last.op = "upsert_files" /\ last.outcome = "none") =>
          \A e \in last.entities :
              (KeyOf(e) \in deletedInBatch /\ ~ \E b \in last.files : SameKey(b, e)) =>
                  \E r \in files :
                      SameKey(r, e) /\ r.sha256 = Null /\ r.rehash = Null

\* the loop has terminated after a flush that inserted the deleted row again
\* and a later round that deleted it as vanished
C25_Witness ==
    /\ pc = "counter"
    /\ \E k \in deletedInBatch \cap vanished :
          /\ ~ os_path_exists(k)
          /\ ~ \E r \in files : KeyOf(r) = k

(***************************************************************************)
(* A scan, a hash run and a second scan of a disk that does not change,    *)
(* with no watcher and every statement succeeding.  The initial catalogs   *)
(* are the ones a committed database.files = find() of all volumes leaves  *)
(* behind, for the catalogs and disks of earlier runs.                     *)
(***************************************************************************)
InitConverge ==
    /\ InitDriver
    /\ pc = "idle"
    /\ disk \in {Disk(a, b, c, EarlierEntry, 0) :
                    a \in {NoEntry, EarlierEntry, Entry(<<"x", "y">>, MaxTick)},
                    b \in {NoEntry, EarlierEntry},
                    c \in {NoEntry, Entry(<<>>, 0)}}
    /\ \E ra \in RowsA, rb \in RowsB, rc \in RowsC :
          files = upsert_files_replace("files", ra \cup rb \cup rc,
                                       find_files(Volumes), "none")
    /\ dirs = {DirRow(TopV1, Entry(<<>>, 0), Null, Null),
               DirRow(TopV2, Entry(<<>>, 0), Null, Null)}

NextConverge ==
    \/ CalcHash
    \/ \E limit \in (1..MaxLimit) \cup {ModifiedLimit} : Select(limit, "none")
    \/ \E elapsed \in BOOLEAN : Visit(elapsed, "none")
    \/ TimedFlush("none")
    \/ FinalFlush("none")
    \/ UpdateCounter("none")
    \/ Find(Volumes)
    \/ SetFiles("none")

SpecConverge == InitConverge /\ [][NextConverge]_vars

\* C26: on a disk that does not change, with no failure and no event, after a
\* reconcile of the files table, a complete hash run and a second reconcile of
\* the same listing, no file row has a null sha256 or rehash TRUE, and the
\* second reconcile has changed no row.
C26_ScanAndHashConverge ==
    (last.op = "upsert_files_replace" /\ last.table = "files"
        /\ last.prev.op = "update_counter" /\ last.prev.table = "dirs") =>
        /\ last.outcome \in {"none", "empty"}
        /\ Qualifying = {}
        /\ files = last.files

\* the second reconcile has committed over a row that the first had flagged
\* and the hash run has hashed
C26_Witness ==
    /\ last.op = "upsert_files_replace" /\ last.table = "files"
    /\ last.outcome = "none"
    /\ last.prev.op = "update_counter" /\ last.prev.table = "dirs"
    /\ hashed > 0
    /\ \E r \in files, e \in last.entities :
          SameKey(r, e) /\ r.rehash = Null /\ r.sha256 # Null /\ r.size = e.size

\* C27: after a committed Create event for a file, whether its key was new or
\* a row existed with any sha256 and rehash, the row has a null sha256 or
\* rehash TRUE, and is one of the rows a selection qualifies.
C27_CreatedIsQueued ==
    (last.op = "created" /\ last.table = "files" /\ last.outcome = "none") =>
        \A e \in last.entities :
            /\ e.kind = "File"
            /\ \E r \in files : SameKey(r, e)
            /\ \A r \in files :
                  SameKey(r, e) =>
                      /\ r.sha256 = Null \/ r.rehash = Some(TRUE)
                      /\ r \in Qualifying
                      /\ WhereModified(r)

\* a Create event has committed on a row that had a digest and no flag
C27_Witness ==
    /\ last.op = "created" /\ last.table = "files" /\ last.outcome = "none"
    /\ \E e \in last.entities : \E b \in last.files :
          /\ SameKey(b, e)
          /\ b.sha256 # Null /\ b.rehash = Null
          /\ \E r \in files : SameKey(r, e) /\ r \in Qualifying

====
